---- MODULE Spec2Model ----
(***************************************************************************)
(* Chunked video upload: VideoUploader (src/src/video-uploader.ts) on top  *)
(* of AbstractUploader (src/unnamed/part_000).                             *)
(*                                                                         *)
(* One uploader is constructed from an options record, upload() is called  *)
(* once, and the environment (server, network, timers, the caller holding  *)
(* the value upload() resolved with) drives the rest.  JavaScript runs a   *)
(* handler to completion and drains promise continuations (microtasks)     *)
(* before the next event: the only continuation that is a step of its own  *)
(* is the one after `await` in upload(); every event action is disabled    *)
(* while that continuation is pending.                                     *)
(***************************************************************************)
EXTENDS Integers, Sequences, FiniteSets, TLC

\* ---------------------------------------------------------------- bounds
MaxChunks == 2          \* most chunks a modelled file is cut into
MaxCfgRetries == 2      \* largest caller-supplied `retries` option
MaxCustomRetries == 1   \* retries a caller-supplied retryStrategy may grant
MaxRefresh == 2         \* 401 answers the server gives to an uploader that can refresh
MaxObservers == 2       \* callbacks registered with onProgress, and with onPlayable
MaxPolls == 3           \* polls of waitForPlayable answered "not playable yet"

\* ------------------------------------------------------ program constants
MIN_CHUNK_SIZE == 1024 * 1024 * 5
DEFAULT_CHUNK_SIZE == 1024 * 1024 * 50
MAX_CHUNK_SIZE == 1024 * 1024 * 128
DEFAULT_RETRIES == 6

\* JavaScript `undefined` for a string-valued field or option.
undefined == "undefined"
\* JavaScript `undefined` for VideoUploadError.status (lines 327, 360, 367).
undefinedStatus == 0
\* `null` returned by a RetryStrategy: do not retry.
null == -1
\* An absent token (refreshToken undefined); token k >= 1 is the k-th issued.
noToken == 0

ChunkIds == 0 .. (MaxChunks - 1)

\* Math.ceil(a / b) for a >= 0, b > 0.
Ceil(a, b) == (a + b - 1) \div b

\* ------------------------------------------------------------ construction
\* options.retries absent is 0 here: both are falsy for `options.retries ||`.
\* options.chunkSize absent is 0 here: both are falsy in the two tests of it.
OptionsSet ==
    [ uploadToken : BOOLEAN, accessToken : BOOLEAN, apiKey : BOOLEAN,
      videoId : {undefined, "vid0"},
      refreshToken : {noToken, 1},
      retries : 0 .. MaxCfgRetries,
      retryStrategy : {undefined, "custom"},
      skipUploadToAPIVideo : BOOLEAN,
      chunkSize : {0, MIN_CHUNK_SIZE},
      fileSize : {0} \cup { (k - 1) * MIN_CHUNK_SIZE + 1 : k \in 1 .. MaxChunks } ]

NoAuth == [scheme |-> "none", token |-> noToken]

\* AbstractUploader constructor: credentials, retries.
AbstractUploaderCtor(o) ==
    LET retries == IF o.retries # 0 THEN o.retries ELSE DEFAULT_RETRIES
        base == [ threw |-> FALSE, videoId |-> undefined, refreshToken |-> noToken,
                  authorization |-> NoAuth, retries |-> retries ]
    IN  IF o.uploadToken
        THEN [base EXCEPT !.videoId = o.videoId]
        ELSE IF o.accessToken
        THEN IF o.videoId = undefined
             THEN [base EXCEPT !.threw = TRUE]
             ELSE [base EXCEPT !.refreshToken = o.refreshToken,
                               !.authorization = [scheme |-> "Bearer", token |-> 1]]
        ELSE IF o.apiKey
        THEN IF o.videoId = undefined
             THEN [base EXCEPT !.threw = TRUE]
             ELSE [base EXCEPT !.authorization = [scheme |-> "Basic", token |-> 1]]
        ELSE IF ~ o.skipUploadToAPIVideo
        THEN [base EXCEPT !.threw = TRUE]
        ELSE base

\* VideoUploader constructor: chunk size check, chunk plan.
VideoUploaderCtor(o) ==
    LET super == AbstractUploaderCtor(o)
        chunkSize == IF o.chunkSize # 0 THEN o.chunkSize ELSE DEFAULT_CHUNK_SIZE
    IN  [ threw |-> super.threw
                    \/ (o.chunkSize # 0
                        /\ (o.chunkSize < MIN_CHUNK_SIZE \/ o.chunkSize > MAX_CHUNK_SIZE)),
          videoId |-> super.videoId,
          refreshToken |-> super.refreshToken,
          authorization |-> super.authorization,
          retries |-> super.retries,
          chunkSize |-> chunkSize,
          fileSize |-> o.fileSize,
          chunksCount |-> Ceil(o.fileSize, chunkSize) ]

\* ------------------------------------------------------------ retry policy
In4xx(status) == status >= 400 /\ status < 500

\* Variant: linear backoff instead of the quadratic one.
DEFAULT_RETRY_STRATEGY_Linear(maxRetries, retryCount, error) ==
    IF (error.status # undefinedStatus /\ In4xx(error.status)) \/ retryCount >= maxRetries
    THEN null
    ELSE 200 + 2000 * retryCount

\* Variant: client errors are retried like any other.
DEFAULT_RETRY_STRATEGY_Retry4xx(maxRetries, retryCount, error) ==
    IF retryCount >= maxRetries
    THEN null
    ELSE 200 + 2000 * retryCount * (retryCount + 1)

\* `error.status &&` is false for undefined and for 0 alike; Math.floor of the
\* integer 200 + 2000*n*(n+1) is that integer.
DEFAULT_RETRY_STRATEGY(maxRetries, retryCount, error) ==
    IF (error.status # undefinedStatus /\ In4xx(error.status)) \/ retryCount >= maxRetries
    THEN null
    ELSE 200 + 2000 * retryCount * (retryCount + 1)

\* ------------------------------------------------------------------ state
VARIABLES
    options,          \* the options the uploader was constructed from
    videoId,          \* this.videoId
    refreshToken,     \* this.refreshToken
    authorization,    \* this.headers.Authorization
    abortControllers, \* keys of this.abortControllers
    pc,               \* upload(): "idle", "await" (continuation pending), "returned"
    i,                \* upload(): loop variable
    res,              \* upload(): {} while undefined, else {chunk whose handle it holds}
    ops,              \* per chunk: the withRetrier operation and its transport
    tokensIssued,     \* server: tokens issued so far
    unauthorized,     \* server: 401 answers given that started a refresh
    cancelThrew,      \* caller: a cancel() call threw
    constructed,      \* new VideoUploader(options): "new" (not run), "ok", "threw"
    onProgressCallbacks, \* this.onProgressCallbacks
    lastProgress,     \* << >>, or the last progress event of a request and the
                      \*   callbacks registered when it fired
    progressCalls,    \* the callback calls that event made, in order
    onPlayableCallbacks, \* this.onPlayableCallbacks
    poll,             \* waitForPlayable: position, polls answered, last answer
    playableCalls     \* the onPlayable callback calls made, in order

\* The uploader and its upload().
core == << options, videoId, refreshToken, authorization, abortControllers, pc, i, res,
           ops, tokensIssued, unauthorized, cancelThrew >>

\* Construction, observers, playable poller.
aux == << constructed, onProgressCallbacks, lastProgress, progressCalls,
          onPlayableCallbacks, poll, playableCalls >>

vars == << core, aux >>

\* The uploader's fields that never change after construction.
this == VideoUploaderCtor(options)

NoError == [status |-> undefinedStatus, reason |-> "none"]

NoBody == [videoId |-> undefined, first |-> 0, last |-> 0]

NoParts == [currentPart |-> 0, totalParts |-> 0]

\* waitForPlayable not called.
NoPoll == [pc |-> "idle", count |-> 0, status |-> 0, length |-> 0]

\* A chunk for which withRetrier has not been called yet.
NoOp ==
    [ phase |-> "none",          \* retry loop: none, running (awaiting fn), sleeping,
                                 \*   resolved, rejected
      xhr |-> "none",            \* request in flight for it: none, upload, refresh
      retriesCount |-> 0,
      lastError |-> NoError,     \* `e` of the catch block; the rejection reason
      delays |-> << >>,          \* the delays slept, in order
      body |-> NoBody,           \* params.body
      parts |-> NoParts,         \* params.parts
      sentAuth |-> NoAuth,       \* Authorization header of the last upload request sent
      aborted |-> FALSE,         \* abortController.signal.aborted
      result |-> undefined,      \* videoId of the response the operation resolved with
      xhrSent |-> 0,             \* upload requests sent
      chainRefreshes |-> 0,      \* doRefreshToken calls made by the current fn call
      caught |-> 0,              \* times the catch block was entered
      errSeen |-> {},            \* statuses of the errors passed to the retry strategy
      abortConsulted |-> FALSE,  \* the retry strategy was called with an ABORTED error
      cancelAt |-> "none",       \* where the operation was when it was aborted
      sentAfterAbort |-> FALSE ] \* an upload request was sent after the abort

\* The caller's options of the behaviours checked: one credential shape, no bypass.
\* Files of several chunks are uploaded with retries = 1 and the default strategy,
\* and files of more than two chunks with an upload token.
InitOptions ==
    { o \in OptionsSet :
        /\ ~ VideoUploaderCtor(o).threw
        /\ (VideoUploaderCtor(o).chunksCount > 1
              => o.retries = 1 /\ o.retryStrategy = undefined)
        /\ (VideoUploaderCtor(o).chunksCount > 2 => o.uploadToken)
        /\ ~ o.skipUploadToAPIVideo
        /\ Cardinality({f \in {"u", "a", "k"} :
                          \/ f = "u" /\ o.uploadToken
                          \/ f = "a" /\ o.accessToken
                          \/ f = "k" /\ o.apiKey}) = 1
        /\ (o.refreshToken # noToken => o.accessToken)
        /\ (o.apiKey => o.videoId # undefined) }

Init ==
    /\ options \in InitOptions
    /\ videoId = this.videoId
    /\ refreshToken = this.refreshToken
    /\ authorization = this.authorization
    /\ abortControllers = {}
    /\ pc = "idle"
    /\ i = 0
    /\ res = {}
    /\ ops = [c \in ChunkIds |-> NoOp]
    /\ tokensIssued = 1
    /\ unauthorized = 0
    /\ cancelThrew = FALSE
    /\ constructed = "ok"
    /\ onProgressCallbacks = << >>
    /\ lastProgress = << >>
    /\ progressCalls = << >>
    /\ onPlayableCallbacks = << >>
    /\ poll = NoPoll
    /\ playableCalls = << >>

\* ----------------------------------------------------------- transport
\* createXhrPromise up to xhr.send: one upload request, carrying this.headers.
createXhrPromise(o, auth) ==
    [o EXCEPT !.xhr = "upload",
              !.sentAuth = auth,
              !.xhrSent = @ + 1,
              !.sentAfterAbort = @ \/ o.aborted]

\* createFormData: the form holds a videoId field only when this.videoId is set
\* (videoId |-> undefined: no such field), and the bytes [first, last) of the file,
\* which is the whole file when both startByte and endByte are 0.
createFormData(vid, startByte, endByte) ==
    [ videoId |-> vid,
      first |-> IF startByte # 0 \/ endByte # 0 THEN startByte ELSE 0,
      last |-> IF startByte # 0 \/ endByte # 0 THEN endByte ELSE this.fileSize ]

\* parseErrorResponse: the fields of a JSON body come after, and replace, xhr.status.
parseErrorResponse(r) ==
    IF r.parses
    THEN [status |-> IF r.hasStatus THEN r.bodyStatus ELSE r.status, reason |-> "none"]
    ELSE [status |-> r.status, reason |-> "UNKWOWN"]

ABORTED == [status |-> undefinedStatus, reason |-> "ABORTED"]
NETWORK_ERROR == [status |-> undefinedStatus, reason |-> "NETWORK_ERROR"]

\* What the network can deliver for a request.  xhr.timeout is never set, so no
\* timeout event is delivered and the ontimeout handler never runs.
HttpStatuses == {200, 401, 404, 503}
BodyStatuses == {404, 503}
Responses ==
    { [event |-> "error", status |-> 0, parses |-> FALSE, hasStatus |-> FALSE,
       bodyStatus |-> 0, tokens |-> FALSE] }
    \cup
    { r \in [ event : {"load"}, status : HttpStatuses, parses : BOOLEAN,
              hasStatus : BOOLEAN, bodyStatus : BodyStatuses \cup {0},
              tokens : BOOLEAN ] :
        /\ (r.hasStatus => r.parses /\ r.bodyStatus # 0)
        /\ (~ r.hasStatus => r.bodyStatus = 0)
        /\ (r.tokens => r.parses) }

\* Answers to an upload request carry no tokens.
UploadResponses == { r \in Responses : ~ r.tokens }
\* Answers of the refresh endpoint (a 401 is handled like any other status >= 400).
RefreshResponses == { r \in Responses : r.status # 401 }

\* ------------------------------------------------------------ retry loop
\* A caller-supplied retryStrategy may return anything: `choice` is its answer,
\* until it has granted MaxCustomRetries retries.
CustomChoices == {null, 0}

retryStrategy(retryCount, error, choice) ==
    IF options.retryStrategy = undefined
    THEN DEFAULT_RETRY_STRATEGY(this.retries, retryCount, error)
    ELSE IF retryCount >= MaxCustomRetries THEN null ELSE choice

\* The catch block from the call of the retry strategy on.
ConsultStrategy(o, e, choice) ==
    LET retryDelay == retryStrategy(o.retriesCount, e, choice)
        seen == [o EXCEPT !.lastError = e,
                          !.caught = @ + 1,
                          !.errSeen = @ \cup {e.status},
                          !.abortConsulted = @ \/ e.reason = "ABORTED"]
    IN  IF retryDelay = null
        THEN [seen EXCEPT !.phase = "rejected"]
        ELSE [seen EXCEPT !.phase = "sleeping", !.delays = Append(@, retryDelay)]

\* Variant: no test of e.reason before the retry strategy is called.
RetrierCatch_NoAbortTest(o, e, choice) == ConsultStrategy(o, e, choice)

\* withRetrier, the catch block: fn rejected with e.
RetrierCatch(o, e, choice) ==
    IF e.reason = "ABORTED"
    THEN [o EXCEPT !.phase = "rejected", !.lastError = e, !.caught = @ + 1]
    ELSE ConsultStrategy(o, e, choice)

\* The promise of the running fn call rejects; a promise already settled stays so.
FnReject(o, e, choice) ==
    IF o.phase = "running" THEN RetrierCatch(o, e, choice) ELSE o

\* The promise of the running fn call resolves with a response.
FnResolve(o, v) ==
    IF o.phase = "running" THEN [o EXCEPT !.phase = "resolved", !.result = v] ELSE o

\* withRetrier up to the first await: register the controller, first fn call.
withRetrier(body, auth) ==
    createXhrPromise([NoOp EXCEPT !.phase = "running", !.body = body], auth)

\* ---------------------------------------------------------------- upload()
\* uploadCurrentChunk(c): the form data is built from this.videoId as it is now,
\* the operation is registered and its first request is sent.
\* Variant: the last byte is not clamped to the file size.
uploadCurrentChunk_NoClamp(c, vid) ==
    LET firstByte == c * this.chunkSize
        computedLastByte == (c + 1) * this.chunkSize
        chunksCount == Ceil(this.fileSize, this.chunkSize)
    IN  /\ ops' = [ops EXCEPT ![c] =
               [withRetrier(createFormData(vid, firstByte, computedLastByte), authorization)
                  EXCEPT !.parts = [currentPart |-> c + 1, totalParts |-> chunksCount]]]
        /\ abortControllers' = abortControllers \cup {c}

uploadCurrentChunk(c, vid) ==
    LET firstByte == c * this.chunkSize
        computedLastByte == (c + 1) * this.chunkSize
        lastByte == IF computedLastByte > this.fileSize THEN this.fileSize
                    ELSE computedLastByte
        chunksCount == Ceil(this.fileSize, this.chunkSize)
    IN  /\ ops' = [ops EXCEPT ![c] =
               [withRetrier(createFormData(vid, firstByte, lastByte), authorization)
                  EXCEPT !.parts = [currentPart |-> c + 1, totalParts |-> chunksCount]]]
        /\ abortControllers' = abortControllers \cup {c}

\* The caller calls upload(): the loop runs to its first await.
Upload ==
    /\ pc = "idle"
    /\ i' = 0
    /\ IF 0 < this.chunksCount
       THEN /\ uploadCurrentChunk(0, videoId)
            /\ pc' = "await"
            /\ res' = res
       ELSE /\ pc' = "returned"
            /\ res' = {}
            /\ UNCHANGED << ops, abortControllers >>
    /\ UNCHANGED << aux, options, videoId, refreshToken, authorization, tokensIssued,
                    unauthorized, cancelThrew >>

\* The continuation of `res = await this.uploadCurrentChunk(i)`.  The awaited value
\* is the CancelableOperation {cancel, result} that xhrWithRetrier returns: it has
\* no `then`, so the await yields that object one microtask later, and
\* res.videoId reads a property it does not have.
UploadResume ==
    /\ pc = "await"
    /\ res' = {i}
    /\ videoId' = undefined
    /\ i' = i + 1
    /\ IF i + 1 < this.chunksCount
       THEN /\ uploadCurrentChunk(i + 1, videoId')
            /\ pc' = "await"
       ELSE /\ pc' = "returned"
            /\ UNCHANGED << ops, abortControllers >>
    /\ UNCHANGED << aux, options, refreshToken, authorization, tokensIssued, unauthorized,
                    cancelThrew >>

\* ------------------------------------------------------------ upload request
\* xhr.onerror of an upload request.
XhrError(c) ==
    /\ pc # "await"
    /\ ops[c].xhr = "upload"
    /\ \E choice \in CustomChoices :
         ops' = [ops EXCEPT ![c] = FnReject([@ EXCEPT !.xhr = "none"], NETWORK_ERROR, choice)]
    /\ UNCHANGED << aux, options, videoId, refreshToken, authorization, abortControllers, pc, i,
                    res, tokensIssued, unauthorized, cancelThrew >>

\* Variant: a 401 starts a refresh whether or not a refresh token is held.
XhrUnauthorized_NoTokenTest(c) ==
    /\ pc # "await"
    /\ ops[c].xhr = "upload"
    /\ unauthorized < MaxRefresh
    /\ unauthorized' = unauthorized + 1
    /\ ops' = [ops EXCEPT ![c].xhr = "refresh", ![c].chainRefreshes = @ + 1]
    /\ UNCHANGED << aux, options, videoId, refreshToken, authorization, abortControllers, pc, i,
                    res, tokensIssued, cancelThrew >>

\* xhr.onreadystatechange, status 401 with a refresh token held: doRefreshToken is
\* called and its request sent.
XhrUnauthorized(c) ==
    /\ pc # "await"
    /\ ops[c].xhr = "upload"
    /\ refreshToken # noToken
    /\ unauthorized < MaxRefresh
    /\ unauthorized' = unauthorized + 1
    /\ ops' = [ops EXCEPT ![c].xhr = "refresh", ![c].chainRefreshes = @ + 1]
    /\ UNCHANGED << aux, options, videoId, refreshToken, authorization, abortControllers, pc, i,
                    res, tokensIssued, cancelThrew >>

\* xhr.onreadystatechange, any other status >= 400: reject with the parsed error.
XhrHttpError(c) ==
    /\ pc # "await"
    /\ ops[c].xhr = "upload"
    /\ \E r \in UploadResponses, choice \in CustomChoices :
         /\ r.event = "load"
         /\ r.status >= 400
         /\ ~ (r.status = 401 /\ refreshToken # noToken)
         /\ ops' = [ops EXCEPT ![c] = FnReject([@ EXCEPT !.xhr = "none"],
                                              parseErrorResponse(r), choice)]
    /\ UNCHANGED << aux, options, videoId, refreshToken, authorization, abortControllers, pc, i,
                    res, tokensIssued, unauthorized, cancelThrew >>

\* xhr.onload, status < 400: resolve with the parsed body; JSON.parse throwing in
\* the handler leaves the promise pending for ever.
XhrLoad(c) ==
    /\ pc # "await"
    /\ ops[c].xhr = "upload"
    /\ \E r \in UploadResponses :
         /\ r.event = "load"
         /\ r.status < 400
         /\ ~ r.hasStatus
         /\ ops' = [ops EXCEPT ![c] = IF r.parses
                                      THEN FnResolve([@ EXCEPT !.xhr = "none"], "vidS")
                                      ELSE [@ EXCEPT !.xhr = "none"]]
    /\ UNCHANGED << aux, options, videoId, refreshToken, authorization, abortControllers, pc, i,
                    res, tokensIssued, unauthorized, cancelThrew >>

\* ----------------------------------------------------------- refresh request
\* doRefreshToken, the answer: onreadystatechange rejects on status >= 400, then
\* onload parses the body, stores the tokens it finds and resolves, or rejects.
\* Resolving runs the `.then` of createXhrPromise: the request is sent again.
RefreshLoad(c) ==
    /\ pc # "await"
    /\ ops[c].xhr = "refresh"
    /\ \E r \in RefreshResponses, choice \in CustomChoices :
         /\ r.event = "load"
         /\ IF r.tokens
            THEN /\ tokensIssued' = tokensIssued + 1
                 /\ authorization' = [scheme |-> "Bearer", token |-> tokensIssued']
                 /\ refreshToken' = tokensIssued'
            ELSE UNCHANGED << tokensIssued, authorization, refreshToken >>
         /\ ops' = [ops EXCEPT ![c] =
                IF r.status >= 400
                THEN FnReject([@ EXCEPT !.xhr = "none"], parseErrorResponse(r), choice)
                ELSE IF r.tokens
                THEN createXhrPromise(@, authorization')
                ELSE IF r.parses
                THEN FnReject([@ EXCEPT !.xhr = "none"], parseErrorResponse(r), choice)
                ELSE [@ EXCEPT !.xhr = "none"]]
    /\ UNCHANGED << aux, options, videoId, abortControllers, pc, i, res, unauthorized,
                    cancelThrew >>

\* The refresh request fails in the network: doRefreshToken sets no onerror, so its
\* promise stays pending.
RefreshError(c) ==
    /\ pc # "await"
    /\ ops[c].xhr = "refresh"
    /\ ops' = [ops EXCEPT ![c].xhr = "none"]
    /\ UNCHANGED << aux, options, videoId, refreshToken, authorization, abortControllers, pc, i,
                    res, tokensIssued, unauthorized, cancelThrew >>

\* ------------------------------------------------------------------ backoff
\* The timer of sleep(retryDelay) fires: the catch block ends (its `e` is gone),
\* retriesCount++, next fn call.
SleepDone(c) ==
    /\ pc # "await"
    /\ ops[c].phase = "sleeping"
    /\ ops' = [ops EXCEPT ![c] =
           createXhrPromise([@ EXCEPT !.phase = "running",
                                      !.lastError = NoError,
                                      !.retriesCount = @ + 1,
                                      !.chainRefreshes = 0],
                            authorization)]
    /\ UNCHANGED << aux, options, videoId, refreshToken, authorization, abortControllers, pc, i,
                    res, tokensIssued, unauthorized, cancelThrew >>

\* ------------------------------------------------------------------- cancel
\* Where an operation is when its controller is aborted.
Situation(o) ==
    IF o.phase = "running"
    THEN (IF o.xhr = "upload" THEN "inflight" ELSE IF o.xhr = "refresh" THEN "refresh"
          ELSE "pending")
    ELSE IF o.phase = "sleeping" THEN "backoff" ELSE "settled"

\* abortController.abort(): the listeners added by the requests sent so far run;
\* the one of a request in flight aborts it, each rejects its promise with ABORTED.
\* sleep() listens to nothing.
Abort(o) ==
    LET a == [o EXCEPT !.aborted = TRUE,
                       !.cancelAt = Situation(o),
                       !.xhr = IF @ = "upload" THEN "none" ELSE @]
    IN  FnReject(a, ABORTED, null)

\* The caller calls cancel() on the handle upload() resolved with, until a call throws.
Cancel ==
    /\ pc = "returned"
    /\ ~ cancelThrew
    /\ \E c \in res :
         IF c \in abortControllers
         THEN /\ ops' = [ops EXCEPT ![c] = Abort(@)]
              /\ abortControllers' = abortControllers \ {c}
              /\ UNCHANGED cancelThrew
         ELSE \* this.abortControllers[id] is undefined: TypeError
              /\ cancelThrew' = TRUE
              /\ UNCHANGED << ops, abortControllers >>
    /\ UNCHANGED << aux, options, videoId, refreshToken, authorization, pc, i, res,
                    tokensIssued, unauthorized >>

Next ==
    \/ Upload
    \/ UploadResume
    \/ \E c \in ChunkIds : XhrError(c)
    \/ \E c \in ChunkIds : XhrUnauthorized(c)
    \/ \E c \in ChunkIds : XhrHttpError(c)
    \/ \E c \in ChunkIds : XhrLoad(c)
    \/ \E c \in ChunkIds : RefreshLoad(c)
    \/ \E c \in ChunkIds : RefreshError(c)
    \/ \E c \in ChunkIds : SleepDone(c)
    \/ Cancel

Spec == Init /\ [][Next]_vars

\* ================================================================ properties
Default == options.retryStrategy = undefined
Started == { c \in ChunkIds : ops[c].phase # "none" }
Settled(o) == o.phase \in {"resolved", "rejected"}
InFlight == { c \in ChunkIds : ops[c].xhr = "upload" }

\* C1: during one upload() at most one upload request is in flight, and no request
\* of chunk c+1 is sent before the retry loop of chunk c has settled.
C1_OneRequestInFlight ==
    /\ Cardinality(InFlight) <= 1
    /\ \A c \in ChunkIds :
         (c + 1 \in ChunkIds /\ ops[c + 1].xhrSent > 0) => Settled(ops[c])

\* C2: the videoId of the response chunk c resolved with is the videoId field of the
\* request body built for chunk c+1.
C2_VideoIdThreaded ==
    \A c \in ChunkIds :
        (c + 1 \in Started /\ ops[c].phase = "resolved")
            => ops[c + 1].body.videoId = ops[c].result

\* C3: once this.videoId holds a value, no step replaces it by undefined.
C3_VideoIdNeverCleared == [][videoId # undefined => videoId' # undefined]_vars

\* C4: after cancel() during a backoff sleep the operation does not resolve, rejects
\* only with ABORTED, and no further upload request is sent for it.
C4_CancelInBackoffStops ==
    \A c \in ChunkIds :
        ops[c].cancelAt = "backoff"
            => /\ ~ ops[c].sentAfterAbort
               /\ ops[c].phase # "resolved"
               /\ (ops[c].phase = "rejected" => ops[c].lastError.reason = "ABORTED")

\* C5: one fn call refreshes the token at most once: a 401 answer to the resubmitted
\* request is surfaced to the retry loop, not refreshed again; the resubmitted
\* request carries the refreshed Bearer token.
C5_OneRefreshPerRequest ==
    \A c \in ChunkIds :
        /\ ops[c].chainRefreshes <= 1
        /\ (ops[c].chainRefreshes >= 1 /\ ops[c].xhr = "upload"
              => ops[c].sentAuth.scheme = "Bearer" /\ ops[c].sentAuth.token > 1)

\* C6: under the default strategy the delay slept before retry n (n = 0, 1, ...) is
\* 200 + 2000*n*(n+1) ms, an operation that resolves has made exactly as many
\* retries as it caught failures, and failures of status 503 alone make it give up
\* only once they outnumber the maximum.
QuadraticDelay(n) == 200 + 2000 * n * (n + 1)

C6_DefaultBackoff ==
    \A c \in Started :
        Default =>
            /\ Len(ops[c].delays)
                 = ops[c].retriesCount + (IF ops[c].phase = "sleeping" THEN 1 ELSE 0)
            /\ \A n \in 1 .. Len(ops[c].delays) : ops[c].delays[n] = QuadraticDelay(n - 1)
            /\ (ops[c].phase = "resolved" => ops[c].retriesCount = ops[c].caught)
            /\ (ops[c].phase = "rejected" /\ ops[c].errSeen = {503}
                  /\ ops[c].lastError.reason # "ABORTED"
                  => ops[c].caught > this.retries)

\* C6 witness: 503 twice, then success: two retries, after 200 ms and 4200 ms.
C6_Witness ==
    \E c \in Started :
        /\ Default
        /\ ops[c].phase = "resolved"
        /\ ops[c].errSeen = {503}
        /\ ops[c].caught = 2
        /\ ops[c].retriesCount = 2
        /\ ops[c].delays = << 200, 4200 >>

C8_ExactlyConfiguredRetries ==
    \A c \in Started :
        (/\ Default
         /\ ops[c].phase = "rejected"
         /\ ops[c].lastError.reason # "ABORTED"
         /\ ~ In4xx(ops[c].lastError.status))
            => /\ ops[c].retriesCount = options.retries
               /\ ops[c].caught = options.retries + 1

\* C9: cancel() while an upload request is in flight aborts the request and rejects
\* the operation with ABORTED; the retry strategy is not called with that error, no
\* backoff and no further request follow.
C9_CancelInFlightAborts ==
    \A c \in Started :
        ops[c].cancelAt = "inflight"
            => /\ ops[c].phase = "rejected"
               /\ ops[c].lastError = ABORTED
               /\ ~ ops[c].abortConsulted
               /\ ops[c].xhr = "none"
               /\ ~ ops[c].sentAfterAbort
               /\ Len(ops[c].delays) = ops[c].retriesCount

\* C9 witness: cancelled during the request of a retry, under either strategy.
C9_Witness ==
    \E c \in Started :
        /\ ops[c].cancelAt = "inflight"
        /\ ops[c].retriesCount >= 1
        /\ ops[c].phase = "rejected"
        /\ ~ cancelThrew

\* C10: cancel() may be called any number of times without an error.
C10_CancelIdempotent == ~ cancelThrew

\* C11: upload() has returned only with every chunk resolved (its value is the last
\* chunk's response), and once a chunk's retry loop has rejected no request of a
\* later chunk has been sent.
C11_LastResponseOrFirstFailure ==
    /\ (pc = "returned" =>
          \A c \in ChunkIds : c < this.chunksCount => ops[c].phase = "resolved")
    /\ \A c, d \in ChunkIds :
         (ops[c].phase = "rejected" /\ c < d) => ops[d].xhrSent = 0

\* C15: upload() of a zero-byte file sends exactly one request, with an empty file
\* part, and returns that request's response.
C15_ZeroByteFileOneRequest ==
    (pc = "returned" /\ this.fileSize = 0)
        => /\ ops[0].xhrSent = 1
           /\ ops[0].body.first = 0 /\ ops[0].body.last = 0
           /\ ops[0].phase = "resolved"

RefreshEndsUnresolved ==
    \E c \in ChunkIds : ops[c].xhr = "refresh" /\ ops'[c].xhr = "none"

C19_RefreshAllOrNothing ==
    [][ /\ (RefreshEndsUnresolved
              => authorization' = authorization /\ refreshToken' = refreshToken)
        /\ ((authorization' # authorization) <=> (refreshToken' # refreshToken)) ]_vars

\* C20: this.abortControllers holds the entry of an operation exactly while the
\* operation is pending.
C20_RegistryHoldsPendingOnly ==
    \A c \in ChunkIds :
        c \in abortControllers <=> ops[c].phase \in {"running", "sleeping"}


\* ------------------------------------------------------------ construction
\* Chunk sizes a caller may pass, around the two limits.
ChunkSizeInputs ==
    { 0, 1, MIN_CHUNK_SIZE - 1, MIN_CHUNK_SIZE, MIN_CHUNK_SIZE + 1, DEFAULT_CHUNK_SIZE,
      MAX_CHUNK_SIZE - 1, MAX_CHUNK_SIZE, MAX_CHUNK_SIZE + 1 }

\* Every options object of the constructor. hasChunkSize tells a chunkSize the
\* caller passed from an absent one, which reads as 0 in every test of the code.
CtorOptionsSet ==
    { o \in [ uploadToken : BOOLEAN, accessToken : BOOLEAN, apiKey : BOOLEAN,
              videoId : {undefined, "vid0"},
              refreshToken : {noToken, 1},
              retries : 0 .. MaxCfgRetries,
              retryStrategy : {undefined},
              skipUploadToAPIVideo : BOOLEAN,
              hasChunkSize : BOOLEAN,
              chunkSize : ChunkSizeInputs,
              fileSize : {1, MIN_CHUNK_SIZE + 1} ] :
        ~ o.hasChunkSize => o.chunkSize = 0 }

\* Before `new VideoUploader(options)`: the fields hold their class initialisers.
InitCtor ==
    /\ options \in CtorOptionsSet
    /\ constructed = "new"
    /\ videoId = undefined
    /\ refreshToken = noToken
    /\ authorization = NoAuth
    /\ abortControllers = {}
    /\ pc = "idle"
    /\ i = 0
    /\ res = {}
    /\ ops = [c \in ChunkIds |-> NoOp]
    /\ tokensIssued = 1
    /\ unauthorized = 0
    /\ cancelThrew = FALSE
    /\ onProgressCallbacks = << >>
    /\ lastProgress = << >>
    /\ progressCalls = << >>
    /\ onPlayableCallbacks = << >>
    /\ poll = NoPoll
    /\ playableCalls = << >>

\* new VideoUploader(options): the super constructor, then the chunk size check.
Construct ==
    /\ constructed = "new"
    /\ IF this.threw
       THEN /\ constructed' = "threw"
            /\ UNCHANGED << videoId, refreshToken, authorization >>
       ELSE /\ constructed' = "ok"
            /\ videoId' = this.videoId
            /\ refreshToken' = this.refreshToken
            /\ authorization' = this.authorization
    /\ UNCHANGED << options, abortControllers, pc, i, res, ops, tokensIssued,
                    unauthorized, cancelThrew, onProgressCallbacks, lastProgress,
                    progressCalls, onPlayableCallbacks, poll, playableCalls >>

NextCtor == Construct

SpecCtor == InitCtor /\ [][NextCtor]_vars

\* The credentials the caller supplied.
Supplied(o) ==
    { f \in {"uploadToken", "accessToken", "apiKey"} :
        \/ f = "uploadToken" /\ o.uploadToken
        \/ f = "accessToken" /\ o.accessToken
        \/ f = "apiKey" /\ o.apiKey }

\* Exactly one credential shape: an upload token, or an access token with a video
\* id, or an API key with a video id.
OneCredentialShape(o) ==
    /\ Cardinality(Supplied(o)) = 1
    /\ (o.accessToken \/ o.apiKey) => o.videoId # undefined

\* C12: without the bypass flag and with no chunk size passed, construction
\* succeeds exactly when one credential shape is supplied; none, two or more, or an
\* access token or API key without a video id, fail it.
C12_OneCredentialShape ==
    (constructed # "new" /\ ~ options.skipUploadToAPIVideo /\ ~ options.hasChunkSize)
        => (constructed = "ok" <=> OneCredentialShape(options))

\* C13: with valid credentials, construction fails exactly when a chunk size is
\* passed that is below 5 MiB (0 included) or above 128 MiB, and an uploader built
\* without a chunk size uses 50 MiB.
C13_ChunkSizeRange ==
    (constructed # "new" /\ ~ AbstractUploaderCtor(options).threw)
        => /\ constructed = "threw"
                <=> /\ options.hasChunkSize
                    /\ \/ options.chunkSize < MIN_CHUNK_SIZE
                       \/ options.chunkSize > MAX_CHUNK_SIZE
           /\ (constructed = "ok" /\ ~ options.hasChunkSize)
                => this.chunkSize = DEFAULT_CHUNK_SIZE


\* ------------------------------------------------- chunk plan and progress
Observers == {"cbA", "cbB"}

\* The chunk size an uploader works with, for each chunkSize option.
EffectiveChunkSize(cs) == IF cs # 0 THEN cs ELSE DEFAULT_CHUNK_SIZE

\* File sizes at and around the multiples of the chunk size, of at most MaxChunks
\* chunks.
FileSizes(cs) ==
    { n \in {0, 1} \cup UNION { {k * EffectiveChunkSize(cs) - 1,
                                 k * EffectiveChunkSize(cs),
                                 k * EffectiveChunkSize(cs) + 1} : k \in 1 .. MaxChunks } :
        n <= MaxChunks * EffectiveChunkSize(cs) }

\* Upload-token uploaders over every chunk size and file size above.
ChunkOptions ==
    { o \in [ uploadToken : {TRUE}, accessToken : {FALSE}, apiKey : {FALSE},
              videoId : {undefined, "vid0"},
              refreshToken : {noToken},
              retries : {1},
              retryStrategy : {undefined},
              skipUploadToAPIVideo : {FALSE},
              chunkSize : {0, MIN_CHUNK_SIZE, MIN_CHUNK_SIZE + 1, MAX_CHUNK_SIZE},
              fileSize : UNION { FileSizes(cs) : cs \in {0, MIN_CHUNK_SIZE,
                                                         MIN_CHUNK_SIZE + 1,
                                                         MAX_CHUNK_SIZE} } ] :
        o.fileSize \in FileSizes(o.chunkSize) }

InitChunks ==
    /\ options \in ChunkOptions
    /\ constructed = "ok"
    /\ videoId = this.videoId
    /\ refreshToken = this.refreshToken
    /\ authorization = this.authorization
    /\ abortControllers = {}
    /\ pc = "idle"
    /\ i = 0
    /\ res = {}
    /\ ops = [c \in ChunkIds |-> NoOp]
    /\ tokensIssued = 1
    /\ unauthorized = 0
    /\ cancelThrew = FALSE
    /\ onProgressCallbacks = << >>
    /\ lastProgress = << >>
    /\ progressCalls = << >>
    /\ onPlayableCallbacks = << >>
    /\ poll = NoPoll
    /\ playableCalls = << >>

\* onProgress(cb).
OnProgress(cb) ==
    /\ Len(onProgressCallbacks) < MaxObservers
    /\ onProgressCallbacks' = Append(onProgressCallbacks, cb)
    /\ UNCHANGED << core, constructed, lastProgress, progressCalls, onPlayableCallbacks,
                    poll, playableCalls >>

\* Variant: the bytes of the earlier chunks are not added.
progressEventToUploadProgressEvent_ChunkOnly(chunkNumber, loaded) ==
    [ uploadedBytes |-> loaded,
      totalBytes |-> this.fileSize,
      chunksCount |-> this.chunksCount,
      chunksBytes |-> this.chunkSize,
      currentChunk |-> chunkNumber + 1,
      currentChunkUploadedBytes |-> loaded ]

\* The event handed to the observers for a ProgressEvent of chunk chunkNumber.
progressEventToUploadProgressEvent(chunkNumber, loaded) ==
    LET firstByte == chunkNumber * this.chunkSize
    IN  [ uploadedBytes |-> loaded + firstByte,
          totalBytes |-> this.fileSize,
          chunksCount |-> this.chunksCount,
          chunksBytes |-> this.chunkSize,
          currentChunk |-> chunkNumber + 1,
          currentChunkUploadedBytes |-> loaded ]

\* Byte counts a ProgressEvent of chunk c reports: nothing, one byte, the whole chunk.
Loaded(c) == {0, 1, ops[c].body.last - ops[c].body.first}

\* xhr.upload.onprogress of chunk c's request: forEach over the callbacks.
XhrProgress(c) ==
    /\ pc # "await"
    /\ ops[c].xhr = "upload"
    /\ \E loaded \in Loaded(c) :
         /\ lastProgress' = << [chunk |-> c, loaded |-> loaded,
                                callbacks |-> onProgressCallbacks] >>
         /\ progressCalls' =
              [n \in 1 .. Len(onProgressCallbacks) |->
                 [cb |-> onProgressCallbacks[n],
                  event |-> progressEventToUploadProgressEvent(c, loaded)]]
    /\ UNCHANGED << core, constructed, onProgressCallbacks, onPlayableCallbacks, poll,
                    playableCalls >>

NextChunks ==
    \/ Upload
    \/ UploadResume
    \/ \E cb \in Observers : OnProgress(cb)
    \/ \E c \in ChunkIds : XhrProgress(c)

SpecChunks == InitChunks /\ [][NextChunks]_vars

\* C14: once upload() has requested every chunk of a non-empty file, the chunk
\* count n is the least with n * chunkSize >= fileSize, chunk c carries the bytes
\* [c * chunkSize, min((c + 1) * chunkSize, fileSize)), so that the ranges are non-empty,
\* contiguous and cover [0, fileSize), and its parts header is c + 1 of n.
C14_ChunkPlan ==
    (pc = "returned" /\ this.fileSize > 0)
        => LET n == this.chunksCount
               cs == this.chunkSize
               Min(a, b) == IF a < b THEN a ELSE b
           IN  /\ n >= 1
               /\ n * cs >= this.fileSize
               /\ (n - 1) * cs < this.fileSize
               /\ ops[0].body.first = 0
               /\ ops[n - 1].body.last = this.fileSize
               /\ \A c \in 0 .. (n - 1) :
                    /\ ops[c].xhrSent = 1
                    /\ ops[c].body.first = c * cs
                    /\ ops[c].body.last = Min((c + 1) * cs, this.fileSize)
                    /\ ops[c].body.first < ops[c].body.last
                    /\ c + 1 < n => ops[c].body.last = ops[c + 1].body.first
                    /\ ops[c].parts = [currentPart |-> c + 1, totalParts |-> n]
               /\ \A c \in ChunkIds : c >= n => ops[c].xhrSent = 0

\* A file of two chunks whose last chunk is shorter than the chunk size.
C14_Witness ==
    /\ pc = "returned"
    /\ this.chunksCount = 2
    /\ ops[1].body.last = this.fileSize
    /\ ops[1].body.last - ops[1].body.first < this.chunkSize
    /\ ops[1].parts = [currentPart |-> 2, totalParts |-> 2]

\* C17: a progress event of chunk c reporting `loaded` bytes calls every callback
\* registered at that moment once, in registration order, with currentChunk = c + 1,
\* chunksCount = ceil(fileSize / chunkSize), currentChunkUploadedBytes = loaded and
\* uploadedBytes = c * chunkSize + loaded.
C17_ProgressEvent ==
    \A k \in 1 .. Len(lastProgress) :
        LET p == lastProgress[k]
        IN  /\ Len(progressCalls) = Len(p.callbacks)
            /\ \A n \in 1 .. Len(progressCalls) :
                 LET e == progressCalls[n].event
                 IN  /\ progressCalls[n].cb = p.callbacks[n]
                     /\ e.currentChunk = p.chunk + 1
                     /\ e.chunksCount * this.chunkSize >= this.fileSize
                     /\ (e.chunksCount - 1) * this.chunkSize < this.fileSize
                     /\ e.currentChunkUploadedBytes = p.loaded
                     /\ e.uploadedBytes = p.chunk * this.chunkSize + p.loaded
                     /\ e.totalBytes = this.fileSize
                     /\ e.chunksBytes = this.chunkSize

\* The whole second chunk is reported to two observers.
C17_Witness ==
    /\ Len(lastProgress) = 1
    /\ lastProgress[1].chunk = 1
    /\ lastProgress[1].loaded > 1
    /\ Len(progressCalls) = 2
    /\ progressCalls[1].cb # progressCalls[2].cb
    /\ progressCalls[2].event.uploadedBytes = this.fileSize


\* ---------------------------------------------------------- waitForPlayable
\* The upload response waitForPlayable is called with.
video == [videoId |-> "vid0", hls |-> "hls"]

\* What a poll of the HLS manifest can answer: a status, and a body of some length.
PollAnswers == [status : {200, 202, 404}, length : {0, 1}]

\* Variant: the body is not looked at.
Playable_StatusOnly(r) == r.status # 202

\* The loop breaks: neither `continue` is taken.
Playable(r) == r.status # 202 /\ r.length # 0

InitPlayable ==
    /\ options \in {o \in ChunkOptions : o.fileSize = 1 /\ o.chunkSize = 0}
    /\ constructed = "ok"
    /\ videoId = this.videoId
    /\ refreshToken = this.refreshToken
    /\ authorization = this.authorization
    /\ abortControllers = {}
    /\ pc = "idle"
    /\ i = 0
    /\ res = {}
    /\ ops = [c \in ChunkIds |-> NoOp]
    /\ tokensIssued = 1
    /\ unauthorized = 0
    /\ cancelThrew = FALSE
    /\ onProgressCallbacks = << >>
    /\ lastProgress = << >>
    /\ progressCalls = << >>
    /\ onPlayableCallbacks = << >>
    /\ poll = NoPoll
    /\ playableCalls = << >>

\* onPlayable(cb).
OnPlayable(cb) ==
    /\ Len(onPlayableCallbacks) < MaxObservers
    /\ onPlayableCallbacks' = Append(onPlayableCallbacks, cb)
    /\ UNCHANGED << core, constructed, onProgressCallbacks, lastProgress, progressCalls,
                    poll, playableCalls >>

\* waitForPlayable(video) up to its first `await this.sleep(500)`.
WaitForPlayable ==
    /\ poll.pc = "idle"
    /\ poll' = [poll EXCEPT !.pc = "sleeping"]
    /\ UNCHANGED << core, constructed, onProgressCallbacks, lastProgress, progressCalls,
                    onPlayableCallbacks, playableCalls >>

\* The sleep ends: fetch(hls) is sent.
PollSleepDone ==
    /\ poll.pc = "sleeping"
    /\ poll' = [poll EXCEPT !.pc = "fetching"]
    /\ UNCHANGED << core, constructed, onProgressCallbacks, lastProgress, progressCalls,
                    onPlayableCallbacks, playableCalls >>

\* The poll is answered; the manifest is "not ready" at most MaxPolls times.
PollRespond(r) ==
    /\ poll.pc = "fetching"
    /\ ~ Playable(r) => poll.count < MaxPolls
    /\ poll' = [pc |-> IF Playable(r) THEN "done" ELSE "sleeping",
                count |-> poll.count + 1,
                status |-> r.status,
                length |-> r.length]
    /\ playableCalls' =
         IF Playable(r)
         THEN [n \in 1 .. Len(onPlayableCallbacks) |->
                 [cb |-> onPlayableCallbacks[n], video |-> video]]
         ELSE playableCalls
    /\ UNCHANGED << core, constructed, onProgressCallbacks, lastProgress, progressCalls,
                    onPlayableCallbacks >>

\* fetch, or reading the body, rejects: waitForPlayable rejects.
PollFails ==
    /\ poll.pc = "fetching"
    /\ poll' = [poll EXCEPT !.pc = "failed"]
    /\ UNCHANGED << core, constructed, onProgressCallbacks, lastProgress, progressCalls,
                    onPlayableCallbacks, playableCalls >>

NextPlayable ==
    \/ \E cb \in Observers : OnPlayable(cb)
    \/ WaitForPlayable
    \/ PollSleepDone
    \/ \E r \in PollAnswers : PollRespond(r)
    \/ PollFails

SpecPlayable == InitPlayable /\ [][NextPlayable]_vars

\* The poll just answered was a 202 or had an empty body.
NotReady == poll.status = 202 \/ poll.length = 0

\* One step of waitForPlayable, as the claim has it.
PlayableStep ==
    /\ (poll.pc = "fetching" /\ poll'.count # poll.count /\ NotReady')
          => poll'.pc = "sleeping" /\ playableCalls' = playableCalls
    /\ playableCalls' # playableCalls
          => /\ playableCalls = << >>
             /\ poll.pc = "fetching" /\ poll'.pc = "done" /\ ~ NotReady'
             /\ Len(playableCalls') = Len(onPlayableCallbacks)
             /\ \A n \in 1 .. Len(playableCalls') :
                  playableCalls'[n] = [cb |-> onPlayableCallbacks[n], video |-> video]
    /\ poll.pc = "done" => poll'.pc = "done" /\ playableCalls' = playableCalls

\* C18: waitForPlayable polls again after every poll answered 202 or with an empty
\* body; at the first poll answered otherwise it calls every registered onPlayable
\* callback once, in order, with the response it was given; no callback is called
\* before such a poll, and none again after it.
C18_PlayableNotifiedOnce ==
    /\ [](poll.pc # "done" => playableCalls = << >>)
    /\ [](poll.pc = "done" => poll.status # 202 /\ poll.length > 0)
    /\ [][PlayableStep]_vars

\* Two observers are notified at the third poll.
C18_Witness ==
    /\ poll.pc = "done"
    /\ poll.count = 3
    /\ Len(playableCalls) = 2
    /\ playableCalls[1].cb # playableCalls[2].cb
    /\ playableCalls[2].video = video

====
